---- MODULE Spec2Model ----
(***************************************************************************)
(* Model of mail-test.py: the module-level credential fetch, main(),       *)
(* build_html_table() and send_email().                                    *)
(*                                                                         *)
(* Text is modelled as a sequence of tokens.  A token is either a piece of *)
(* markup ("<td>", "</tr>", ...) or a piece of plain text ("x", "1.0").   *)
(* An f-string interpolation appends the tokens of str(value) to the text  *)
(* unchanged, which is what raw interpolation does.                        *)
(***************************************************************************)
EXTENDS Integers, Sequences, FiniteSets, TLC

\* ------------------------------------------------------------------ bounds
MaxCols == 2        \* columns of a dataset given to build_html_table
MaxRows == 2        \* rows of a dataset given to build_html_table
RunMaxCells == 1    \* columns, rows and cells of the sheet read in a whole run
MaxList == 2        \* length of the To list and of the CC list

None == "None"

\* ------------------------------------------------------- generic helpers
Range(s) == {s[i] : i \in 1..Len(s)}

RECURSIVE Flatten(_)
Flatten(ss) == IF ss = <<>> THEN <<>> ELSE Head(ss) \o Flatten(Tail(ss))

SeqsUpTo(S, n) == UNION {[1..k -> S] : k \in 0..n}

\* -------------------------------------------------------- cell values
\* A cell of a DataFrame: an int (numpy int64 or Python int), a float
\* (n tenths, so n = 25 is 2.5), a str (its tokens) or NaN/None (missing).
IntVal(n)   == [t |-> "int",   n |-> n, s |-> <<>>]
FloatVal(n) == [t |-> "float", n |-> n, s |-> <<>>]
StrVal(s)   == [t |-> "str",   n |-> 0, s |-> s]
NaN         == [t |-> "nan",   n |-> 0, s |-> <<>>]

IntVals   == {IntVal(1), IntVal(2)}
FloatVals == {FloatVal(25), NaN}
\* Spreadsheet text is arbitrary: plain text, or text that holds markup.
StrVals   == {StrVal(<<"x">>), StrVal(<<"</td>", "<td>">>)}
Values    == IntVals \cup FloatVals \cup StrVals

\* pd.notna(value)
notna(v) == v.t # "nan"

\* str(value), as the f-string "{value}" calls it
Str(v) ==
  CASE v.t = "int"   -> <<ToString(v.n)>>
    [] v.t = "float" -> <<ToString(v.n \div 10) \o "." \o ToString(v.n % 10)>>
    [] v.t = "str"   -> v.s
    [] v.t = "nan"   -> <<"nan">>

\* ------------------------------------------------------------ datasets
\* A DataFrame as pd.read_excel returns it: uniquely named columns, and in
\* each column either all int64, or all float64 (NaN for a blank cell), or
\* object (some text in it; numbers and blanks kept as they are).
ColName(i) == "c" \o ToString(i)

IsColumn(c) ==
  \/ \E i \in DOMAIN c : c[i].t = "str"
  \/ \A i \in DOMAIN c : c[i].t = "int"
  \/ \A i \in DOMAIN c : c[i].t \in {"float", "nan"}

ColumnsOfLen(m) == {c \in [1..m -> Values] : IsColumn(c)}

NameSeqs(maxCols) ==
  {s \in SeqsUpTo({ColName(i) : i \in 1..maxCols}, maxCols) :
     \A i, j \in DOMAIN s : i # j => s[i] # s[j]}

\* [columns |-> names, rows |-> the cells row by row]
Datasets(maxCols, maxRows, maxCells) ==
  UNION {
    UNION {
      { [columns |-> names,
         rows    |-> [i \in 1..m |-> [j \in 1..Len(names) |-> cols[j][i]]]]
        : cols \in [1..Len(names) -> ColumnsOfLen(m)] }
      : m \in {k \in 0..maxRows : k * Len(names) <= maxCells} }
    : names \in NameSeqs(maxCols) }

NoDataset == [columns |-> <<>>, rows |-> <<>>]

\* the dtype pandas gives column j
Dtype(df, j) ==
  IF \E i \in DOMAIN df.rows : df.rows[i][j].t = "str" THEN "object"
  ELSE IF \E i \in DOMAIN df.rows : df.rows[i][j].t \in {"float", "nan"} THEN "float64"
  ELSE IF df.rows = <<>> THEN "object"
  ELSE "int64"

\* the dtype of df.values, the one array iterrows cuts its rows from
CommonDtype(df) ==
  LET n == Len(df.columns) IN
  IF \E j \in 1..n : Dtype(df, j) = "object" THEN "object"
  ELSE IF \E j \in 1..n : Dtype(df, j) = "float64" THEN "float64"
  ELSE "int64"

\* df.iterrows(): each row is a Series of ONE dtype, so an int64 cell is
\* returned as a float when another column is float64.
iterrows(df) ==
  [i \in DOMAIN df.rows |->
     [j \in 1..Len(df.columns) |->
        IF CommonDtype(df) = "float64" /\ df.rows[i][j].t = "int"
        THEN FloatVal(10 * df.rows[i][j].n)
        ELSE df.rows[i][j]]]

\* row[col]: lookup by column label
RowGet(df, row, col) == row[CHOOSE j \in DOMAIN df.columns : df.columns[j] = col]

\* ---------------------------------------------------- build_html_table
HeaderCell(col) == <<"<th>", col, "</th>">>

BodyCell(value) == <<"<td>">> \o (IF notna(value) THEN Str(value) ELSE <<>>) \o <<"</td>">>

BodyRow(df, row) ==
  <<"<tr>">>
  \o Flatten([j \in DOMAIN df.columns |-> BodyCell(RowGet(df, row, df.columns[j]))])
  \o <<"</tr>">>

build_html_table(df) ==
  <<"<table>", "<tr.head>">>
  \o Flatten([j \in DOMAIN df.columns |-> HeaderCell(df.columns[j])])
  \o <<"</tr>">>
  \o Flatten([i \in DOMAIN df.rows |-> BodyRow(df, iterrows(df)[i])])
  \o <<"</table>">>

\* ------------------------------------------------- reading the HTML back
\* The contents found between each token of `opens` and the next `close`.
RECURSIVE Between(_, _, _)
Between(s, opens, close) ==
  IF s = <<>> THEN <<>>
  ELSE IF Head(s) \in opens
  THEN LET rest == Tail(s)
           ends == {k \in 1..Len(rest) : rest[k] = close}
           k    == IF ends = {} THEN Len(rest) + 1
                   ELSE CHOOSE x \in ends : \A y \in ends : x <= y
       IN  <<[open |-> Head(s), content |-> SubSeq(rest, 1, k - 1)]>>
           \o Between(SubSeq(rest, k + 1, Len(rest)), opens, close)
  ELSE Between(Tail(s), opens, close)

Contents(els) == [i \in DOMAIN els |-> els[i].content]

TableRows(html) == Between(html, {"<tr.head>", "<tr>"}, "</tr>")

\* the cells of the header rows, and the cells of each body row
HeaderCells(html) ==
  Flatten([i \in DOMAIN TableRows(html) |->
     IF TableRows(html)[i].open = "<tr.head>"
     THEN Contents(Between(TableRows(html)[i].content, {"<th>"}, "</th>"))
     ELSE <<>>])

BodyRows(html) ==
  LET body == SelectSeq(TableRows(html), LAMBDA r : r.open = "<tr>")
  IN  [i \in DOMAIN body |-> Contents(Between(body[i].content, {"<td>"}, "</td>"))]

CountOf(s, tok) == Cardinality({i \in DOMAIN s : s[i] = tok})

\* ------------------------------------------------------------- state
VARIABLES
  pc,               \* position of the script
  sender_email,     \* module global, line 19
  sender_password,  \* module global, line 20
  recipients,       \* module global, line 23
  cc_list,          \* module global, line 24
  df,               \* main: the sheet read
  html_table,       \* main: the rendered table
  html_content,     \* main: the mail body
  to_emails,        \* send_email parameter
  cc_emails,        \* send_email parameter
  attachment_path,  \* send_email parameter
  msg,              \* send_email: the MIME message
  all_recipients,   \* send_email: line 81
  fileOpen,         \* the attachment file handle is open
  smtpOpen,         \* the SMTP connection is open
  calls,            \* the library calls made so far, in order
  out               \* the lines printed so far, in order

vars == <<pc, sender_email, sender_password, recipients, cc_list, df, html_table,
          html_content, to_emails, cc_emails, attachment_path, msg, all_recipients,
          fileOpen, smtpOpen, calls, out>>

globals    == <<sender_email, sender_password, recipients, cc_list>>
mainLocals == <<df, html_table, html_content>>
sendArgs   == <<to_emails, cc_emails, attachment_path>>
sendLocals == <<msg, all_recipients>>
resources  == <<fileOpen, smtpOpen>>

\* --------------------------------------------------------- environment
\* what the vault holds under "infosec-email" and "infosec-pswd"
VaultEmail    == "infosec@corp.example"
VaultPassword == "s3cret"

Addresses  == {"a@x.com", "b@x.com"}
input_file == "NonFS_NonCompliant_Repos.xlsx"
smtp_server == "smtp.office365.com"
smtp_port == 587

\* a printed line: the source line of the print and the values it shows
Line(n, shown) == [line |-> n, shows |-> shown]
\* a library call: its name, its arguments, and whether it returned
Call(op, arg, ok) == [op |-> op, arg |-> arg, ok |-> ok]
\* an exception: its type and the arguments str(e) shows
Exc(type, args) == [type |-> type, args |-> args]

Printed(n) == \E i \in DOMAIN out : out[i].line = n
Called(op) == \E i \in DOMAIN calls : calls[i].op = op

\* ", ".join(list)
RECURSIVE Join(_)
Join(list) ==
  IF list = <<>> THEN <<>>
  ELSE IF Len(list) = 1 THEN <<list[1]>>
  ELSE <<list[1], ", ">> \o Join(Tail(list))

NoMsg == [From |-> None, To |-> <<>>, Cc |-> <<>>, body |-> <<>>, parts |-> <<>>]

\* the exceptions smtplib raises at each step of the session
SmtpSteps == {"connect", "starttls", "login", "sendmail", "quit"}
SmtpErrors(step) ==
  CASE step = "connect"  -> {Exc("ConnectionRefusedError", <<>>), Exc("SMTPConnectError", <<>>)}
    [] step = "starttls" -> {Exc("SMTPNotSupportedError", <<>>), Exc("SMTPServerDisconnected", <<>>)}
    [] step = "login"    -> {Exc("SMTPAuthenticationError", <<>>), Exc("SMTPServerDisconnected", <<>>)}
    [] step = "sendmail" -> {Exc("SMTPSenderRefused", <<sender_email>>),
                             Exc("SMTPRecipientsRefused", all_recipients),
                             Exc("SMTPDataError", <<>>),
                             Exc("SMTPServerDisconnected", <<>>)}
    [] step = "quit"     -> {Exc("SMTPServerDisconnected", <<>>)}

\* the arguments each SMTP call is given (lines 85-91)
SmtpArgs(step) ==
  CASE step = "connect"  -> <<smtp_server, ToString(smtp_port)>>
    [] step = "login"    -> <<sender_email, sender_password>>
    [] step = "sendmail" -> all_recipients
    [] OTHER             -> <<>>

\* ---------------------------------------------------------------- Init
Init ==
  /\ pc = "fetch_email"
  /\ sender_email = None /\ sender_password = None
  /\ recipients = <<>> /\ cc_list = <<>>
  /\ df = NoDataset /\ html_table = <<>> /\ html_content = <<>>
  /\ to_emails = <<>> /\ cc_emails = <<>> /\ attachment_path = None
  /\ msg = NoMsg /\ all_recipients = <<>>
  /\ fileOpen = FALSE /\ smtpOpen = FALSE
  /\ calls = <<>> /\ out = <<>>

\* ------------------------------------------------- module level, 13-26
\* lines 15-19: get_secret("infosec-email") returns
FetchSenderEmail ==
  /\ pc = "fetch_email"
  /\ out' = Append(out, Line(18, {}))
  /\ calls' = Append(calls, Call("get_secret", <<"infosec-email">>, TRUE))
  /\ sender_email' = VaultEmail
  /\ pc' = "fetch_password"
  /\ UNCHANGED <<sender_password, recipients, cc_list, mainLocals, sendArgs,
                 sendLocals, resources>>

\* lines 15-19: authentication or the fetch raises; nothing catches it
FetchSenderEmailFails ==
  /\ pc = "fetch_email"
  /\ out' = Append(out, Line(18, {}))
  /\ calls' = Append(calls, Call("get_secret", <<"infosec-email">>, FALSE))
  /\ pc' = "crashed"
  /\ UNCHANGED <<globals, mainLocals, sendArgs, sendLocals, resources>>

\* lines 20-21: get_secret("infosec-pswd") returns, then the print of line 21
FetchSenderPassword ==
  /\ pc = "fetch_password"
  /\ calls' = Append(calls, Call("get_secret", <<"infosec-pswd">>, TRUE))
  /\ sender_password' = VaultPassword
  /\ out' = Append(out, Line(21, {sender_email}))
  /\ pc' = "configure"
  /\ UNCHANGED <<sender_email, recipients, cc_list, mainLocals, sendArgs,
                 sendLocals, resources>>

FetchSenderPasswordFails_Swallowed ==
  /\ pc = "fetch_password"
  /\ calls' = Append(calls, Call("get_secret", <<"infosec-pswd">>, FALSE))
  /\ pc' = "configure"
  /\ UNCHANGED <<globals, mainLocals, sendArgs, sendLocals, resources, out>>

\* line 20: the fetch raises; nothing catches it
FetchSenderPasswordFails ==
  /\ pc = "fetch_password"
  /\ calls' = Append(calls, Call("get_secret", <<"infosec-pswd">>, FALSE))
  /\ pc' = "crashed"
  /\ UNCHANGED <<globals, mainLocals, sendArgs, sendLocals, resources, out>>

\* lines 23-26: the recipient lists (any lists; the script's are one address each)
Configure ==
  /\ pc = "configure"
  /\ recipients' \in SeqsUpTo(Addresses, MaxList)
  /\ cc_list' \in SeqsUpTo(Addresses, MaxList)
  /\ pc' = "main"
  /\ UNCHANGED <<sender_email, sender_password, mainLocals, sendArgs, sendLocals,
                 resources, calls, out>>

\* ------------------------------------------------------- main, 99-135
\* lines 137-138 and 100
MainStart ==
  /\ pc = "main"
  /\ out' = Append(out, Line(100, {}))
  /\ pc' = "read_excel"
  /\ UNCHANGED <<globals, mainLocals, sendArgs, sendLocals, resources, calls>>

\* lines 101-104: pd.read_excel returns the sheet
ReadExcel ==
  /\ pc = "read_excel"
  /\ df' \in Datasets(RunMaxCells, RunMaxCells, RunMaxCells)
  /\ calls' = Append(calls, Call("read_excel", <<input_file>>, TRUE))
  /\ out' = out \o <<Line(102, {input_file}), Line(104, {})>>
  /\ pc' = "build"
  /\ UNCHANGED <<globals, html_table, html_content, sendArgs, sendLocals, resources>>

ReadExcelFails_Continues ==
  /\ pc = "read_excel"
  /\ calls' = Append(calls, Call("read_excel", <<input_file>>, FALSE))
  /\ out' = out \o <<Line(102, {input_file}), Line(106, {input_file})>>
  /\ pc' = "build"
  /\ UNCHANGED <<globals, mainLocals, sendArgs, sendLocals, resources>>

\* lines 101-103, 105-107: pd.read_excel raises; logged, main returns
ReadExcelFails ==
  /\ pc = "read_excel"
  /\ calls' = Append(calls, Call("read_excel", <<input_file>>, FALSE))
  /\ out' = out \o <<Line(102, {input_file}), Line(106, {input_file})>>
  /\ pc' = "exit"
  /\ UNCHANGED <<globals, mainLocals, sendArgs, sendLocals, resources>>

\* lines 109-126
BuildTable ==
  /\ pc = "build"
  /\ calls' = Append(calls, Call("build_html_table", <<>>, TRUE))
  /\ html_table' = build_html_table(df)
  /\ html_content' = <<"<p>Hi All,</p>">> \o html_table' \o <<"<p>Thanks,<br>Infosec Team</p>">>
  /\ out' = out \o <<Line(109, {}), Line(111, {})>>
  /\ pc' = "call_send"
  /\ UNCHANGED <<globals, df, sendArgs, sendLocals, resources>>

\* ------------------------------------------------- send_email, 53-94
\* lines 128-135 and 53-65: the call, the message, the test of attachment_path
\* (main passes input_file; the parameter's default is None)
CallSendEmail ==
  /\ pc = "call_send"
  /\ \E path \in {input_file, None} :
       /\ attachment_path' = path
       /\ pc' = IF path # None THEN "open_attachment" ELSE "recipients"
  /\ to_emails' = recipients
  /\ cc_emails' = cc_list
  /\ calls' = Append(calls, Call("send_email", <<>>, TRUE))
  /\ msg' = [From |-> sender_email, To |-> Join(recipients), Cc |-> Join(cc_list),
             body |-> html_content, parts |-> <<"text/html">>]
  /\ out' = Append(out, Line(128, {}))
  /\ UNCHANGED <<globals, mainLocals, all_recipients, resources>>

\* line 67: open(attachment_path, "rb") returns
OpenAttachment ==
  /\ pc = "open_attachment"
  /\ calls' = Append(calls, Call("open", <<attachment_path>>, TRUE))
  /\ fileOpen' = TRUE
  /\ pc' = "read_attachment"
  /\ UNCHANGED <<globals, mainLocals, sendArgs, sendLocals, smtpOpen, out>>

OpenAttachmentFails_SendsAnyway ==
  /\ pc = "open_attachment"
  /\ calls' = Append(calls, Call("open", <<attachment_path>>, FALSE))
  /\ out' = Append(out, Line(78, {attachment_path}))
  /\ pc' = "recipients"
  /\ UNCHANGED <<globals, mainLocals, sendArgs, sendLocals, resources>>

\* lines 67, 77-79: open raises; logged, send_email returns (and main with it)
OpenAttachmentFails ==
  /\ pc = "open_attachment"
  /\ calls' = Append(calls, Call("open", <<attachment_path>>, FALSE))
  /\ out' = Append(out, Line(78, {attachment_path}))
  /\ pc' = "exit"
  /\ UNCHANGED <<globals, mainLocals, sendArgs, sendLocals, resources>>

\* lines 68-76: the read, the end of the with block, the part attached
ReadAttachment ==
  /\ pc = "read_attachment"
  /\ calls' = Append(calls, Call("read", <<>>, TRUE))
  /\ fileOpen' = FALSE
  /\ msg' = [msg EXCEPT !.parts = Append(@, "attachment")]
  /\ out' = Append(out, Line(76, {attachment_path}))
  /\ pc' = "recipients"
  /\ UNCHANGED <<globals, mainLocals, sendArgs, all_recipients, smtpOpen>>

\* lines 69, 77-79: f.read() raises; the with block closes the file; logged, return
ReadAttachmentFails ==
  /\ pc = "read_attachment"
  /\ calls' = Append(calls, Call("read", <<>>, FALSE))
  /\ fileOpen' = FALSE
  /\ out' = Append(out, Line(78, {}))
  /\ pc' = "exit"
  /\ UNCHANGED <<globals, mainLocals, sendArgs, sendLocals, smtpOpen>>

AllRecipients_ToOnly(to, cc) == to

\* line 81: to_emails + cc_emails
AllRecipients(to, cc) == to \o cc

ComputeRecipients ==
  /\ pc = "recipients"
  /\ all_recipients' = AllRecipients(to_emails, cc_emails)
  /\ pc' = "connect"
  /\ UNCHANGED <<globals, mainLocals, sendArgs, msg, resources, calls, out>>

NextStep_SkipsLogin(step) ==
  CASE step = "connect"  -> "starttls"
    [] step = "starttls" -> "sendmail"
    [] step = "login"    -> "sendmail"
    [] step = "sendmail" -> "quit"
    [] step = "quit"     -> "exit"

\* lines 85-91: the statement that follows each call of the session
NextStep(step) ==
  CASE step = "connect"  -> "starttls"
    [] step = "starttls" -> "login"
    [] step = "login"    -> "sendmail"
    [] step = "sendmail" -> "quit"
    [] step = "quit"     -> "exit"

\* lines 84-85: smtplib.SMTP(smtp_server, smtp_port) returns
Connect ==
  /\ pc = "connect"
  /\ calls' = Append(calls, Call("connect", SmtpArgs("connect"), TRUE))
  /\ smtpOpen' = TRUE
  /\ out' = Append(out, Line(84, {smtp_server}))
  /\ pc' = NextStep("connect")
  /\ UNCHANGED <<globals, mainLocals, sendArgs, sendLocals, fileOpen>>

\* lines 86-87
StartTls ==
  /\ pc = "starttls"
  /\ calls' = Append(calls, Call("starttls", SmtpArgs("starttls"), TRUE))
  /\ out' = Append(out, Line(87, {}))
  /\ pc' = NextStep("starttls")
  /\ UNCHANGED <<globals, mainLocals, sendArgs, sendLocals, resources>>

\* lines 88-89
Login ==
  /\ pc = "login"
  /\ calls' = Append(calls, Call("login", SmtpArgs("login"), TRUE))
  /\ out' = Append(out, Line(89, {}))
  /\ pc' = NextStep("login")
  /\ UNCHANGED <<globals, mainLocals, sendArgs, sendLocals, resources>>

\* line 90
Sendmail ==
  /\ pc = "sendmail"
  /\ calls' = Append(calls, Call("sendmail", SmtpArgs("sendmail"), TRUE))
  /\ pc' = NextStep("sendmail")
  /\ UNCHANGED <<globals, mainLocals, sendArgs, sendLocals, resources, out>>

\* lines 91-92: quit returns, the success line is printed, send_email returns
Quit ==
  /\ pc = "quit"
  /\ calls' = Append(calls, Call("quit", SmtpArgs("quit"), TRUE))
  /\ smtpOpen' = FALSE
  /\ out' = Append(out, Line(92, Range(all_recipients)))
  /\ pc' = NextStep("quit")
  /\ UNCHANGED <<globals, mainLocals, sendArgs, sendLocals, fileOpen>>

FailedToSend_ToOnly(all, e) == Line(94, Range(to_emails) \cup Range(e.args))

\* line 94: the line printed by the handler
FailedToSend(all, e) == Line(94, Range(all) \cup Range(e.args))

\* lines 83-94: a call of the session raises; the handler prints line 94 and
\* send_email returns.  The connection stays open unless it was never made or
\* smtplib dropped it (SMTPServerDisconnected): the handler does not quit.
SmtpFails ==
  /\ pc \in SmtpSteps
  /\ \E e \in SmtpErrors(pc) :
       /\ out' = out \o (IF pc = "connect" THEN <<Line(84, {smtp_server})>> ELSE <<>>)
                     \o <<FailedToSend(all_recipients, e)>>
       /\ smtpOpen' = IF pc = "connect" \/ e.type = "SMTPServerDisconnected"
                      THEN FALSE ELSE smtpOpen
  /\ calls' = Append(calls, Call(pc, SmtpArgs(pc), FALSE))
  /\ pc' = "exit"
  /\ UNCHANGED <<globals, mainLocals, sendArgs, sendLocals, fileOpen>>

Next ==
  \/ FetchSenderEmail \/ FetchSenderEmailFails
  \/ FetchSenderPassword \/ FetchSenderPasswordFails
  \/ Configure \/ MainStart
  \/ ReadExcel \/ ReadExcelFails
  \/ BuildTable \/ CallSendEmail
  \/ OpenAttachment \/ OpenAttachmentFails
  \/ ReadAttachment \/ ReadAttachmentFails
  \/ ComputeRecipients
  \/ Connect \/ StartTls \/ Login \/ Sendmail \/ Quit
  \/ SmtpFails

Spec == Init /\ [][Next]_vars

\* ------------------------------------- build_html_table on its own
RenderInit ==
  /\ pc = "render"
  /\ sender_email = None /\ sender_password = None
  /\ recipients = <<>> /\ cc_list = <<>>
  /\ df \in Datasets(MaxCols, MaxRows, MaxCols * MaxRows)
  /\ html_table = <<>> /\ html_content = <<>>
  /\ to_emails = <<>> /\ cc_emails = <<>> /\ attachment_path = None
  /\ msg = NoMsg /\ all_recipients = <<>>
  /\ fileOpen = FALSE /\ smtpOpen = FALSE
  /\ calls = <<>> /\ out = <<>>

\* lines 31-48, applied to any dataset
RenderCall ==
  /\ pc = "render"
  /\ calls' = Append(calls, Call("build_html_table", <<>>, TRUE))
  /\ html_table' = build_html_table(df)
  /\ pc' = "rendered"
  /\ UNCHANGED <<globals, df, html_content, sendArgs, sendLocals, resources, out>>

RenderNext == RenderCall

RenderSpec == RenderInit /\ [][RenderNext]_vars

\* ----------------------------------------------------------- the claims
AttachFailed == \E i \in DOMAIN calls : calls[i].op \in {"open", "read"} /\ ~calls[i].ok
SmtpFailed   == \E i \in DOMAIN calls : calls[i].op \in SmtpSteps /\ ~calls[i].ok
ReadFailed   == \E i \in DOMAIN calls : calls[i].op = "read_excel" /\ ~calls[i].ok
VaultFailed  == \E i \in DOMAIN calls : calls[i].op = "get_secret" /\ ~calls[i].ok
SmtpCalls    == SelectSeq(calls, LAMBDA c : c.op \in SmtpSteps)
VaultCalls   == SelectSeq(calls, LAMBDA c : c.op = "get_secret")
Built        == Called("build_html_table")
SessionOrder == <<"connect", "starttls", "login", "sendmail", "quit">>
SecretNames  == <<"infosec-email", "infosec-pswd">>
\* what a cell is expected to hold for a source value: nothing for a missing
\* value, the value's own text otherwise
CellText(v)  == IF v.t = "nan" THEN <<>> ELSE Str(v)
\* no text of the dataset holds markup
PlainText(d) ==
  \A i \in DOMAIN d.rows : \A j \in DOMAIN d.rows[i] :
     \A k \in DOMAIN d.rows[i][j].s : d.rows[i][j].s[k] = "x"

\* C1: when send_email has returned, every resource it acquired is released:
\* the attachment file is closed and the SMTP connection, if one was opened,
\* is quit or closed, also after a caught failure of starttls, login or sendmail.
C1_ResourcesReleased ==
  pc = "exit" => ~fileOpen /\ ~smtpOpen

\* C2: no printed line shows the sender email address fetched from the vault
\* or the sender password.
C2_NoCredentialPrinted ==
  \A i \in DOMAIN out :
     out[i].shows \cap ({sender_email, sender_password} \ {None}) = {}

\* C3: a failure at the attachment step is logged and send_email returns
\* without any SMTP call (no connect, STARTTLS, login or sendmail); a message
\* meant to carry an attachment is never handed to sendmail without it.
C3_AttachFailureNoNetwork ==
  /\ AttachFailed => Printed(78) /\ pc = "exit" /\ SmtpCalls = <<>> /\ ~smtpOpen
  /\ Called("sendmail") /\ attachment_path # None => "attachment" \in Range(msg.parts)

C3_Witness ==
  AttachFailed /\ pc = "exit" /\ attachment_path = input_file /\ SmtpCalls = <<>>

\* C4: when any step of the SMTP session fails, send_email returns normally,
\* the last line recorded is the failure line and it names every To and every
\* CC address, and the success line is not recorded.
C4_SmtpFailureReported ==
  SmtpFailed =>
    /\ pc = "exit"
    /\ out[Len(out)].line = 94
    /\ (Range(to_emails) \cup Range(cc_emails)) \subseteq out[Len(out)].shows
    /\ ~Printed(92)

C4_Witness ==
  /\ \E i \in DOMAIN calls : calls[i].op = "login" /\ ~calls[i].ok
  /\ pc = "exit"
  /\ to_emails # <<>> /\ cc_emails # <<>>
  /\ Range(cc_emails) \ Range(to_emails) # {}

\* C5: the envelope recipients given to sendmail, as a set, are exactly the
\* To addresses together with the CC addresses.
C5_EnvelopeIsUnion ==
  \A i \in DOMAIN calls :
     calls[i].op = "sendmail" =>
        Range(calls[i].arg) = Range(to_emails) \cup Range(cc_emails)

C5_Witness ==
  /\ \E i \in DOMAIN calls : calls[i].op = "sendmail" /\ calls[i].ok
  /\ to_emails # <<>> /\ cc_emails # <<>>
  /\ Range(to_emails) # Range(cc_emails)

\* C6: the SMTP calls of one send_email call are a prefix of connect,
\* STARTTLS, login, sendmail, quit: each is made at most once, only after the
\* one before it succeeded, and none is made after a failure.
C6_SessionOrder ==
  /\ Len(SmtpCalls) <= Len(SessionOrder)
  /\ \A i \in DOMAIN SmtpCalls :
        /\ SmtpCalls[i].op = SessionOrder[i]
        /\ i < Len(SmtpCalls) => SmtpCalls[i].ok

C6_Witness ==
  /\ Len(SmtpCalls) = 5
  /\ \A i \in DOMAIN SmtpCalls : SmtpCalls[i].ok
  /\ pc = "exit"

\* C7: the table returned for a dataset of N columns and M rows has one
\* header cell per column in column order, then exactly M body rows of
\* exactly N cells, the cell at row i, column j holding the value of data
\* row i, column j.
C7_TableShape ==
  Built =>
    /\ CountOf(html_table, "<table>") = 1
    /\ HeaderCells(html_table) = [j \in DOMAIN df.columns |-> <<df.columns[j]>>]
    /\ Len(BodyRows(html_table)) = Len(df.rows)
    /\ \A i \in DOMAIN BodyRows(html_table) :
          /\ Len(BodyRows(html_table)[i]) = Len(df.columns)
          /\ i \in DOMAIN df.rows =>
               \A j \in DOMAIN df.columns :
                  j \in DOMAIN BodyRows(html_table)[i] =>
                     BodyRows(html_table)[i][j] = CellText(df.rows[i][j])

\* C8: a cell whose source value is missing is empty, and a cell whose source
\* value is not missing holds that value unchanged (stated on the datasets
\* whose text holds no markup, where the cells read back are the cells written).
C8_MissingBlankOthersUnchanged ==
  Built /\ PlainText(df) =>
    \A i \in DOMAIN df.rows : \A j \in DOMAIN df.columns :
       IF df.rows[i][j].t = "nan"
       THEN BodyRows(html_table)[i][j] = <<>>
       ELSE BodyRows(html_table)[i][j] = Str(df.rows[i][j])

\* C9: when reading the spreadsheet fails, the error is logged and main
\* returns normally; build_html_table and send_email are not called and no
\* SMTP connection is opened.
C9_ReadFailureEndsRun ==
  ReadFailed =>
    /\ pc = "exit"
    /\ Printed(106)
    /\ ~Built /\ ~Called("send_email")
    /\ SmtpCalls = <<>> /\ ~smtpOpen

C9_Witness ==
  ReadFailed /\ pc = "exit" /\ Printed(106)

\* C10: the two secrets are fetched once each, in order, before any other
\* call; a failed fetch is not retried and ends the run uncaught with nothing
\* else called; sendmail is only called with both credentials obtained.
C10_CredentialsFirstAndFatal ==
  /\ Len(VaultCalls) <= Len(SecretNames)
  /\ \A i \in DOMAIN VaultCalls : VaultCalls[i].arg = <<SecretNames[i]>>
  /\ \A i \in DOMAIN calls :
        calls[i].op # "get_secret" =>
           /\ i > Len(SecretNames)
           /\ \A k \in 1..Len(SecretNames) : calls[k].op = "get_secret" /\ calls[k].ok
  /\ VaultFailed => pc = "crashed" /\ calls = VaultCalls /\ ~Printed(102) /\ ~smtpOpen
  /\ Called("sendmail") => sender_email = VaultEmail /\ sender_password = VaultPassword

C10_Witness ==
  /\ pc = "crashed"
  /\ \E i \in DOMAIN calls : calls[i].arg = <<"infosec-pswd">> /\ ~calls[i].ok
  /\ sender_email = VaultEmail

====
